---- MODULE Spec2Model ----
(***************************************************************************)
(* Model of trio_owfs.service.Service (src/trio_owfs/service.py): the      *)
(* device map, the server set, the task set and the single-consumer event  *)
(* bus (EventWrapper over a trio.Queue), with the coroutines __aexit__,    *)
(* scan_now and ensure_struct.                                             *)
(*                                                                         *)
(* Every synchronous method is one action.  A coroutine is cut at its      *)
(* await points: each piece between two suspension points is one action.   *)
(* An exception is recorded in `last` (the outcome of the latest call).    *)
(***************************************************************************)
EXTENDS Naturals, Sequences, FiniteSets

\* ---------------------------------------------------------------- bounds
\* capacity of the bus queue: trio.Queue(1000) in the source, scaled down
QueueCapacity == 2
\* number of push_event calls in a run
MaxPush == 3
\* device IDs
MaxIds == 2
\* Device objects constructed for one ID
MaxDevObjs == 2

\* Server objects (one per add_server call)
MaxServers == 2
\* add_task calls
MaxTasks == 2
\* EventWrapper objects (each access of Service.events makes one)
MaxWrappers == 2
\* ensure_struct calls
MaxCallers == 2

Ids == 1 .. MaxIds
Servers == 1 .. MaxServers
Tasks == 1 .. MaxTasks
Wrappers == 1 .. MaxWrappers
Callers == 1 .. MaxCallers

VARIABLES
    _devices,      \* self._devices: set of <<id, Device>> (the dict's items)
    _event_queue,  \* self._event_queue: None or the trio.Queue
    entered,       \* entered[w]: a with-block on EventWrapper w is active
    it,            \* it[w]: where the task iterating w stands in __anext__
    npush,         \* push_event calls so far (stamps each event)
    lost,          \* stamps of the events push_event discarded (bus unarmed)
    accepted,      \* events put_nowait accepted since the bus was armed
    armed_at,      \* value of npush when the bus was armed
    getters,       \* wrappers whose __anext__ ran since the bus was armed
    got,           \* got[w]: events __anext__ of w returned since the bus was armed
    added,         \* added[k]: Device objects made (and DeviceAdded pushed) for ID k
    calls,         \* calls[k]: get_device(k) calls, counted up to 2
    returned,      \* returned[k]: Device objects get_device(k) has returned
    _servers,      \* self._servers
    srv,           \* srv[s]: where add_server stands for Server object s
    srv_log,       \* srv_log[s]: the push_event calls about s, and who made them
    deleted,       \* deleted[s]: _del_server has removed s from the set
    _tasks,        \* self._tasks: cancel scopes
    task,          \* task[t]: the activity of the t-th add_task call and its caller
    nursery_cancelled,  \* self.nursery was cancelled by a failed child
    observe,       \* whether the bus history (lost, accepted, getters, got) is kept
    closed,        \* the wrappers whose __exit__ has disarmed the bus (kept when
                   \* the history of the events is not)
    aexit,         \* where Service.__aexit__ stands, and the drops it has awaited
    scan,          \* where Service.scan_now stands, and the scans it has started
    _did_setup,    \* cls._did_setup of the one device class
    _load_structs, \* self._load_structs
    es,            \* es[c]: where the c-th ensure_struct call stands
    last           \* the latest call and its outcome

busvars == <<_event_queue, entered, it, npush, lost, accepted, armed_at, getters,
            got, observe, closed>>
devvars == <<_devices, added, calls, returned>>
srvvars == <<_servers, srv, srv_log, deleted>>
taskvars == <<_tasks, task, nursery_cancelled>>
structvars == <<_did_setup, _load_structs, es>>
\* the coroutines __aexit__, scan_now and ensure_struct
corovars == <<aexit, scan, structvars>>
vars == <<_devices, _event_queue, entered, it, npush, lost, accepted,
          armed_at, getters, got, added, calls, returned, _servers, srv,
          srv_log, deleted, _tasks, task, nursery_cancelled, observe, closed,
          aexit, scan, _did_setup, _load_structs, es, last>>

\* ------------------------------------------------------------ trio.Queue
None == [is_none |-> TRUE]

\* faulty variant of Queue: arming replays an event discarded while unarmed
QueueReplay ==
    [data |-> IF lost = {} THEN <<>>
              ELSE <<[kind |-> "DeviceDeleted", subj |-> 1,
                      n |-> CHOOSE n \in lost : TRUE]>>,
     get_wait |-> <<>>]

\* trio.Queue(1000): no data, no task waiting in get()
Queue == [data |-> <<>>, get_wait |-> <<>>]

\* Queue.put_nowait raises trio.WouldBlock: no getter waits and the queue is full
put_nowait_raises(q) == q.get_wait = <<>> /\ Len(q.data) >= QueueCapacity

\* faulty variant of put_nowait: the new object goes to the front
put_nowait_lifo(q, obj) ==
    IF q.get_wait # <<>> THEN [q EXCEPT !.get_wait = Tail(@)]
    ELSE IF Len(q.data) < QueueCapacity THEN [q EXCEPT !.data = <<obj>> \o @]
    ELSE q

\* Queue.put_nowait(obj): hand obj to the first waiting getter, else append it
put_nowait(q, obj) ==
    IF q.get_wait # <<>> THEN [q EXCEPT !.get_wait = Tail(@)]
    ELSE IF Len(q.data) < QueueCapacity THEN [q EXCEPT !.data = Append(@, obj)]
    ELSE q

\* the getter that put_nowait(obj) reschedules with obj as the value of get()
reschedule(q, obj) ==
    IF q.get_wait # <<>>
    THEN [it EXCEPT ![Head(q.get_wait)] = [pc |-> "woken", val |-> obj]]
    ELSE it

Idle == [pc |-> "idle", val |-> None]

\* ------------------------------------------------------------ push_event
PushRaises == _event_queue # None /\ put_nowait_raises(_event_queue)

\* Service.push_event(event): the bus part of every action that emits
push_event(event) ==
    LET ev == [kind |-> event.kind, subj |-> event.subj, n |-> npush + 1] IN
    /\ npush' = npush + 1
    /\ IF _event_queue = None
       THEN /\ lost' = IF observe THEN lost \cup {ev.n} ELSE lost
            /\ UNCHANGED <<_event_queue, it, accepted>>
       ELSE /\ _event_queue' = put_nowait(_event_queue, ev)
            /\ it' = reschedule(_event_queue, ev)
            /\ accepted' = IF observe /\ ~put_nowait_raises(_event_queue)
                           THEN Append(accepted, ev) ELSE accepted
            /\ lost' = lost
    /\ UNCHANGED <<entered, armed_at, getters, got, observe, closed>>

PushResult == IF PushRaises THEN "WouldBlock" ELSE "ok"

\* a collaborator (server, device, bus) calls push_event directly
ExternalEvents == {[kind |-> "DeviceDeleted", subj |-> 1]}

PushEvent(event) ==
    /\ npush < MaxPush
    /\ push_event(event)
    /\ last' = [op |-> "push_event", arg |-> event.subj, res |-> PushResult]
    /\ UNCHANGED <<devvars, srvvars, taskvars, corovars>>

\* ---------------------------------------------------------- EventWrapper
\* faulty variant of __enter__: the assertion is missing
enter_unchecked(w) ==
    /\ ~entered[w]
    /\ _event_queue' = [data |-> <<>>, get_wait |-> <<>>]
    /\ entered' = [entered EXCEPT ![w] = TRUE]
    /\ accepted' = <<>>
    /\ armed_at' = IF observe THEN npush ELSE armed_at
    /\ getters' = {}
    /\ last' = [op |-> "__enter__", arg |-> w, res |-> "ok"]
    /\ got' = [v \in Wrappers |-> <<>>]
    /\ UNCHANGED <<it, npush, lost, observe, closed>>
    /\ UNCHANGED <<devvars, srvvars, taskvars, corovars>>

\* EventWrapper.__enter__
__enter__(w) ==
    /\ ~entered[w]
    /\ IF _event_queue # None
       THEN /\ last' = [op |-> "__enter__", arg |-> w, res |-> "AssertionError"]
            /\ UNCHANGED busvars
       ELSE /\ _event_queue' = Queue
            /\ entered' = [entered EXCEPT ![w] = TRUE]
            /\ accepted' = <<>>
            /\ armed_at' = IF observe THEN npush ELSE armed_at
            /\ getters' = {}
            /\ last' = [op |-> "__enter__", arg |-> w, res |-> "ok"]
            /\ got' = [v \in Wrappers |-> <<>>]
            /\ UNCHANGED <<it, npush, lost, observe, closed>>
    /\ UNCHANGED <<devvars, srvvars, taskvars, corovars>>

\* the tasks left in get() of a queue that the service no longer references
orphan(f, q) ==
    [w \in Wrappers |->
        IF \E i \in 2 .. Len(q.get_wait) : q.get_wait[i] = w
        THEN [pc |-> "orphaned", val |-> None] ELSE f[w]]

\* line 176: trio.Queue documents empty(); whether the attribute is_empty
\* exists depends on the installed trio, so both outcomes are kept
IsEmptyAttr == {"missing", "present"}

\* the outcome of EventWrapper.__exit__(*tb); clean: tb[1] is None
exit_result(q, clean, attr) ==
    IF clean /\ attr = "missing" THEN "AttributeError"
    ELSE IF clean /\ q.data # <<>> THEN "AssertionError"
    ELSE IF put_nowait_raises(q) THEN "WouldBlock"
    ELSE "ok"

\* EventWrapper.__exit__
__exit__(w, clean) ==
    /\ entered[w]
    /\ entered' = [entered EXCEPT ![w] = FALSE]
    /\ \E attr \in IsEmptyAttr :
        LET res == exit_result(_event_queue, clean, attr) IN
        /\ last' = [op |-> "__exit__", arg |-> w, res |-> res, clean |-> clean]
        /\ IF res = "ok"
           THEN /\ it' = orphan(reschedule(_event_queue, None), _event_queue)
                /\ _event_queue' = None
                /\ closed' = IF observe THEN closed ELSE closed \cup {w}
           ELSE UNCHANGED <<_event_queue, it, closed>>
    /\ UNCHANGED <<npush, lost, accepted, armed_at, getters, got, observe>>
    /\ UNCHANGED <<devvars, srvvars, taskvars, corovars>>

\* EventWrapper.__anext__ up to the suspension point inside Queue.get()
__anext__(w) ==
    /\ it[w].pc = "idle"
    /\ IF _event_queue = None
       THEN /\ last' = [op |-> "__anext__", arg |-> w, res |-> "AttributeError"]
            /\ UNCHANGED busvars
       ELSE /\ getters' = IF observe THEN getters \cup {w} ELSE getters
            /\ last' = [op |-> "__anext__", arg |-> w, res |-> "suspended"]
            /\ IF _event_queue.data # <<>>
               THEN /\ it' = [it EXCEPT ![w] = [pc |-> "woken",
                                               val |-> Head(_event_queue.data)]]
                    /\ _event_queue' = [_event_queue EXCEPT !.data = Tail(@)]
               ELSE /\ it' = [it EXCEPT ![w].pc = "waiting"]
                    /\ _event_queue' = [_event_queue EXCEPT
                                            !.get_wait = Append(@, w)]
            /\ UNCHANGED <<entered, npush, lost, accepted, armed_at, got, observe,
                           closed>>
    /\ UNCHANGED <<devvars, srvvars, taskvars, corovars>>

\* EventWrapper.__anext__ from the return of Queue.get() on
anext_resume(w) ==
    /\ it[w].pc = "woken"
    /\ it' = [it EXCEPT ![w] = Idle]
    /\ IF it[w].val = None
       THEN /\ last' = [op |-> "__anext__", arg |-> w, res |-> "StopAsyncIteration"]
            /\ got' = got
       ELSE /\ last' = [op |-> "__anext__", arg |-> w, res |-> "ok"]
            /\ got' = IF observe THEN [got EXCEPT ![w] = Append(@, it[w].val)]
                      ELSE got
    /\ UNCHANGED <<_event_queue, entered, npush, lost, accepted, armed_at, getters,
                   observe, closed>>
    /\ UNCHANGED <<devvars, srvvars, taskvars, corovars>>

\* --------------------------------------------------------------- devices
\* Device(self, id): a new object (the obj-th made for this id).  The class
\* lives in trio_owfs/device.py; its id is taken to be the id it is made with.
Device(obj, id) == [obj |-> obj, id |-> id]

DeviceAdded(dev) == [kind |-> "DeviceAdded", subj |-> dev.id]

\* id in self._devices
has_key(d, id) == \E p \in d : p[1] = id

\* self._devices[id]
getitem(d, id) == (CHOOSE p \in d : p[1] = id)[2]

\* self._devices[id] = dev
setitem(d, id, dev) == {p \in d : p[1] # id} \cup {<<id, dev>>}

\* a call counter that stops at 2
count(n) == IF n < 2 THEN n + 1 ELSE n

\* faulty variant of get_device: the lookup is missing
get_device_no_lookup(id) ==
    LET dev == Device(added[id] + 1, id) IN
    /\ added[id] < MaxDevObjs
    /\ npush < MaxPush
    /\ _devices' = setitem(_devices, dev.id, dev)
    /\ added' = [added EXCEPT ![id] = @ + 1]
    /\ push_event(DeviceAdded(dev))
    /\ returned' = IF PushRaises THEN returned
                   ELSE [returned EXCEPT ![id] = @ \cup {dev.obj}]
    /\ last' = [op |-> "get_device", arg |-> id, res |-> PushResult]
    /\ calls' = [calls EXCEPT ![id] = count(@)]
    /\ UNCHANGED <<srvvars, taskvars, corovars>>

\* Service.get_device
get_device(id) ==
    IF has_key(_devices, id)
    THEN /\ returned' = [returned EXCEPT ![id] = @ \cup {getitem(_devices, id).obj}]
         /\ last' = [op |-> "get_device", arg |-> id, res |-> "ok"]
         /\ calls' = [calls EXCEPT ![id] = count(@)]
         /\ UNCHANGED <<_devices, added>>
         /\ UNCHANGED <<busvars, srvvars, taskvars, corovars>>
    ELSE LET dev == Device(added[id] + 1, id) IN
         /\ added[id] < MaxDevObjs
         /\ npush < MaxPush
         /\ _devices' = setitem(_devices, dev.id, dev)
         /\ added' = [added EXCEPT ![id] = @ + 1]
         /\ push_event(DeviceAdded(dev))
         /\ returned' = IF PushRaises THEN returned
                        ELSE [returned EXCEPT ![id] = @ \cup {dev.obj}]
         /\ last' = [op |-> "get_device", arg |-> id, res |-> PushResult]
         /\ calls' = [calls EXCEPT ![id] = count(@)]
         /\ UNCHANGED <<srvvars, taskvars, corovars>>

\* Service._del_device: a dict has no method remove
_del_device(d) ==
    /\ last' = [op |-> "_del_device", arg |-> d.id, res |-> "AttributeError"]
    /\ UNCHANGED <<devvars, srvvars, taskvars, corovars>>
    /\ UNCHANGED busvars

\* --------------------------------------------------------------- servers
ServerRegistered(s) == [kind |-> "ServerRegistered", subj |-> s]
ServerDeregistered(s) == [kind |-> "ServerDeregistered", subj |-> s]

logged(s, kind, by) == [srv_log EXCEPT ![s] = Append(@, [kind |-> kind, by |-> by])]

\* faulty variant of add_server: the server joins the set when it is registered
add_server_optimistic(s) ==
    /\ srv[s].pc = "new"
    /\ \A r \in Servers : r < s => srv[r].pc # "new"
    /\ npush < MaxPush
    /\ push_event(ServerRegistered(s))
    /\ _servers' = _servers \cup {s}
    /\ srv_log' = logged(s, "ServerRegistered", "add_server")
    /\ srv' = [srv EXCEPT ![s] =
                 IF PushRaises
                 THEN [pc |-> "raised", start |-> "none", exc |-> "WouldBlock"]
                 ELSE [pc |-> "start", start |-> "none", exc |-> "none"]]
    /\ last' = [op |-> "add_server", arg |-> s,
                res |-> IF PushRaises THEN "WouldBlock" ELSE "suspended"]
    /\ UNCHANGED <<deleted, devvars, taskvars, corovars>>

\* Service.add_server, lines 57-63: Server(), push_event, then await s.start()
add_server(s) ==
    /\ srv[s].pc = "new"
    /\ \A r \in Servers : r < s => srv[r].pc # "new"
    /\ npush < MaxPush
    /\ push_event(ServerRegistered(s))
    /\ srv_log' = logged(s, "ServerRegistered", "add_server")
    /\ srv' = [srv EXCEPT ![s] =
                 IF PushRaises
                 THEN [pc |-> "raised", start |-> "none", exc |-> "WouldBlock"]
                 ELSE [pc |-> "start", start |-> "none", exc |-> "none"]]
    /\ last' = [op |-> "add_server", arg |-> s,
                res |-> IF PushRaises THEN "WouldBlock" ELSE "suspended"]
    /\ UNCHANGED <<_servers, deleted, devvars, taskvars, corovars>>

\* Service.add_server, lines 68-70: s.start() returned
start_ok(s) ==
    /\ srv[s].pc = "start"
    /\ _servers' = _servers \cup {s}
    /\ srv' = [srv EXCEPT ![s] = [pc |-> "start_scan", start |-> "ok", exc |-> "none"]]
    /\ last' = [op |-> "add_server", arg |-> s, res |-> "suspended"]
    /\ UNCHANGED <<srv_log, deleted, busvars, devvars, taskvars, corovars>>

\* Service.add_server, lines 64-67: s.start() raised
start_failed(s) ==
    LET exc == IF PushRaises THEN "WouldBlock" ELSE "StartError" IN
    /\ srv[s].pc = "start"
    /\ npush < MaxPush
    /\ push_event(ServerDeregistered(s))
    /\ srv_log' = logged(s, "ServerDeregistered", "add_server")
    /\ srv' = [srv EXCEPT ![s] = [pc |-> "raised", start |-> "failed", exc |-> exc]]
    /\ last' = [op |-> "add_server", arg |-> s, res |-> exc]
    /\ UNCHANGED <<_servers, deleted, devvars, taskvars, corovars>>

\* Service.add_server, lines 70-71: s.start_scan() returned or raised
start_scan_done(s, ok) ==
    LET exc == IF ok THEN "none" ELSE "ScanError" IN
    /\ srv[s].pc = "start_scan"
    /\ srv' = [srv EXCEPT ![s] = [pc |-> IF ok THEN "returned" ELSE "raised",
                                  start |-> "ok", exc |-> exc]]
    /\ last' = [op |-> "add_server", arg |-> s, res |-> IF ok THEN "ok" ELSE exc]
    /\ UNCHANGED <<_servers, srv_log, deleted, busvars, devvars, taskvars, corovars>>

\* faulty variant of _del_server: discard instead of remove
del_server_discard(s) ==
    /\ srv[s].pc # "new"
    /\ npush < MaxPush
    /\ _servers' = _servers \ {s}
    /\ push_event(ServerDeregistered(s))
    /\ srv_log' = logged(s, "ServerDeregistered", "_del_server")
    /\ deleted' = [deleted EXCEPT ![s] = TRUE]
    /\ last' = [op |-> "_del_server", arg |-> s, res |-> PushResult]
    /\ UNCHANGED <<srv, devvars, taskvars, corovars>>

\* Service._del_server, called by the server collaborator
_del_server(s) ==
    /\ srv[s].pc # "new"
    /\ IF s \notin _servers
       THEN /\ last' = [op |-> "_del_server", arg |-> s, res |-> "KeyError"]
            /\ UNCHANGED <<_servers, srv_log, deleted, busvars>>
       ELSE /\ npush < MaxPush
            /\ _servers' = _servers \ {s}
            /\ push_event(ServerDeregistered(s))
            /\ srv_log' = logged(s, "ServerDeregistered", "_del_server")
            /\ deleted' = [deleted EXCEPT ![s] = TRUE]
            /\ last' = [op |-> "_del_server", arg |-> s, res |-> PushResult]
    /\ UNCHANGED <<srv, devvars, taskvars, corovars>>

\* ----------------------------------------------------------------- tasks
NoTask == [child |-> "none", caller |-> "none", cancel_called |-> FALSE]

\* Service.add_task, line 134, with _add_task up to task_status.started(scope)
add_task(t) ==
    /\ task[t].caller = "none"
    /\ \A r \in Tasks : r < t => task[r].caller # "none"
    /\ task' = [task EXCEPT ![t] = [child |-> "running", caller |-> "waiting",
                                    cancel_called |-> FALSE]]
    /\ last' = [op |-> "add_task", arg |-> t, res |-> "suspended"]
    /\ UNCHANGED <<_tasks, nursery_cancelled, busvars, devvars, srvvars, corovars>>

\* Service.add_task, lines 135-136: nursery.start() returned the scope
add_task_resume(t) ==
    /\ task[t].caller = "waiting"
    /\ _tasks' = _tasks \cup {t}
    /\ task' = [task EXCEPT ![t].caller = "returned"]
    /\ last' = [op |-> "add_task", arg |-> t, res |-> "ok"]
    /\ UNCHANGED <<nursery_cancelled, busvars, devvars, srvvars, corovars>>

\* Service.add_task, line 134: the caller is cancelled with the nursery
add_task_cancelled(t) ==
    /\ task[t].caller = "waiting"
    /\ nursery_cancelled
    /\ task' = [task EXCEPT ![t].caller = "raised"]
    /\ last' = [op |-> "add_task", arg |-> t, res |-> "Cancelled"]
    /\ UNCHANGED <<_tasks, nursery_cancelled, busvars, devvars, srvvars, corovars>>

\* how an activity can end
Endings(t) ==
    {"returned", "failed"} \cup
    (IF task[t].cancel_called \/ nursery_cancelled THEN {"cancelled"} ELSE {})

\* Service._add_task, lines 110-116: proc ended, the finally block runs
_add_task(t, how) ==
    /\ task[t].child = "running"
    /\ how \in Endings(t)
    /\ _tasks' = _tasks \ {t}
    /\ task' = [task EXCEPT ![t].child = how]
    /\ nursery_cancelled' = (nursery_cancelled \/ how = "failed")
    /\ last' = [op |-> "_add_task", arg |-> t, res |-> how]
    /\ UNCHANGED <<busvars, devvars, srvvars, corovars>>

\* scope.cancel() on the handle add_task returned
cancel(t) ==
    /\ task[t].caller = "returned"
    /\ ~task[t].cancel_called
    /\ task' = [task EXCEPT ![t].cancel_called = TRUE]
    /\ last' = [op |-> "cancel", arg |-> t, res |-> "ok"]
    /\ UNCHANGED <<_tasks, nursery_cancelled, busvars, devvars, srvvars, corovars>>

\* -------------------------------------------------------------- __aexit__
NoExit == [pc |-> "none", clean |-> TRUE, todo |-> {}, cur |-> 0, dropped |-> {},
           spin |-> 0]

\* lines 161-162: t.cancel() for every scope in the task set
cancel_all ==
    [t \in Tasks |-> IF t \in _tasks THEN [task[t] EXCEPT !.cancel_called = TRUE]
                     ELSE task[t]]

\* lines 161-162, then __aexit__ returns
aexit_cancel_tasks(ax) ==
    /\ aexit' = [ax EXCEPT !.pc = "returned"]
    /\ task' = cancel_all
    /\ last' = [op |-> "__aexit__", arg |-> 0, res |-> "ok"]

\* line 160: await trio.sleep(0) inside the drain loop
aexit_sleep(ax) ==
    /\ aexit' = [ax EXCEPT !.pc = "drain", !.spin = 1 - @]
    /\ task' = task
    /\ last' = [op |-> "__aexit__", arg |-> 0, res |-> "suspended"]

\* lines 158-162 when the for loop over the servers is done
aexit_drain(ax) ==
    IF _event_queue # None /\ _event_queue.data # <<>>
    THEN aexit_sleep(ax)
    ELSE aexit_cancel_tasks(ax)

\* lines 156-157: the next server of the list, or the end of the for loop
aexit_servers(ax) ==
    IF ax.todo # {}
    THEN /\ \E s \in ax.todo :
               aexit' = [ax EXCEPT !.pc = "dropping", !.cur = s, !.todo = @ \ {s}]
         /\ task' = task
         /\ last' = [op |-> "__aexit__", arg |-> 0, res |-> "suspended"]
    ELSE aexit_drain(ax)

\* Service.__aexit__(*tb) up to its first suspension; clean: tb[1] is None.
\* The arguments are not looked at.
__aexit__(clean) ==
    /\ aexit.pc = "none"
    /\ aexit_servers([aexit EXCEPT !.clean = clean, !.todo = _servers])
    /\ UNCHANGED <<_tasks, nursery_cancelled, busvars, devvars, srvvars, scan,
                   structvars>>

\* line 157: await s.drop() returned
aexit_dropped ==
    /\ aexit.pc = "dropping"
    /\ aexit_servers([aexit EXCEPT !.dropped = @ \cup {aexit.cur}, !.cur = 0])
    /\ UNCHANGED <<_tasks, nursery_cancelled, busvars, devvars, srvvars, scan,
                   structvars>>

\* lines 159-160: trio.sleep(0) returned, the loop condition is evaluated again
aexit_drained ==
    /\ aexit.pc = "drain"
    /\ IF _event_queue = None
       THEN /\ aexit' = [aexit EXCEPT !.pc = "raised"]
            /\ task' = task
            /\ last' = [op |-> "__aexit__", arg |-> 0, res |-> "AttributeError"]
       ELSE aexit_drain(aexit)
    /\ UNCHANGED <<_tasks, nursery_cancelled, busvars, devvars, srvvars, scan,
                   structvars>>

\* lines 157, 160: OWFS runs __aexit__ inside the nursery's cancel scope, so a
\* cancelled nursery ends the await with trio.Cancelled
aexit_cancelled ==
    /\ aexit.pc \in {"dropping", "drain"}
    /\ nursery_cancelled
    /\ aexit' = [aexit EXCEPT !.pc = "raised"]
    /\ last' = [op |-> "__aexit__", arg |-> 0, res |-> "Cancelled"]
    /\ UNCHANGED <<taskvars, busvars, devvars, srvvars, scan, structvars>>

\* --------------------------------------------------------------- scan_now
NoScan == [pc |-> "none", servers |-> {}, todo |-> {}, cur |-> 0,
           child |-> [s \in Servers |-> "none"], cancelled |-> FALSE,
           exc |-> "none"]

\* line 126-127: the next server of the list is started with n.start, or the
\* for loop is done and the nursery block waits for its children
scan_next(sc) ==
    IF sc.todo # {}
    THEN \E s \in sc.todo :
            scan' = [sc EXCEPT !.pc = "starting", !.cur = s, !.todo = @ \ {s},
                               !.child[s] = "init"]
    ELSE scan' = [sc EXCEPT !.pc = "closing", !.cur = 0]

\* Service.scan_now, lines 124-127, up to the first await n.start(...)
scan_now ==
    /\ scan.pc = "none"
    /\ scan_next([scan EXCEPT !.servers = _servers, !.todo = _servers])
    /\ last' = [op |-> "scan_now", arg |-> 0, res |-> "suspended"]
    /\ UNCHANGED <<busvars, devvars, srvvars, taskvars, aexit, structvars>>

\* line 127: s.scan_now called task_status.started(); n.start has its value
scan_child_started(s) ==
    /\ scan.child[s] = "init"
    /\ scan' = [scan EXCEPT !.child[s] = "running", !.pc = "resume"]
    /\ last' = [op |-> "s.scan_now", arg |-> s, res |-> "started"]
    /\ UNCHANGED <<busvars, devvars, srvvars, taskvars, aexit, structvars>>

\* line 127: n.start returned, the for loop goes on
scan_resume ==
    /\ scan.pc = "resume"
    /\ scan_next(scan)
    /\ last' = [op |-> "scan_now", arg |-> 0, res |-> "suspended"]
    /\ UNCHANGED <<busvars, devvars, srvvars, taskvars, aexit, structvars>>

\* line 127: s.scan_now raised before task_status.started(); n.start raises
\* it in the body of the nursery block, which leaves the for loop
scan_child_raised(s) ==
    /\ scan.child[s] = "init"
    /\ scan' = [scan EXCEPT !.child[s] = "failed", !.pc = "closing", !.cur = 0,
                            !.cancelled = TRUE, !.exc = "ScanError"]
    /\ last' = [op |-> "s.scan_now", arg |-> s, res |-> "ScanError"]
    /\ UNCHANGED <<busvars, devvars, srvvars, taskvars, aexit, structvars>>

\* how a scan that has called started() can end
ScanEndings == IF scan.cancelled THEN {"done", "failed", "cancelled"}
               ELSE {"done", "failed"}

\* line 125: a child of the nursery n ends; a failure cancels the nursery
scan_child_ended(s, how) ==
    /\ scan.child[s] = "running"
    /\ how \in ScanEndings
    /\ scan' = [scan EXCEPT !.child[s] = how,
                            !.cancelled = (@ \/ how = "failed"),
                            !.exc = IF how = "failed" THEN "ScanError" ELSE @]
    /\ last' = [op |-> "s.scan_now", arg |-> s, res |-> how]
    /\ UNCHANGED <<busvars, devvars, srvvars, taskvars, aexit, structvars>>

\* line 127: the nursery n was cancelled while n.start waits for started()
scan_start_cancelled ==
    /\ scan.pc = "starting"
    /\ scan.cancelled
    /\ scan' = [scan EXCEPT !.child[scan.cur] = "cancelled", !.pc = "closing",
                            !.cur = 0]
    /\ last' = [op |-> "scan_now", arg |-> 0, res |-> "suspended"]
    /\ UNCHANGED <<busvars, devvars, srvvars, taskvars, aexit, structvars>>

\* line 125: the nursery block ends once every child has ended
scan_closed ==
    /\ scan.pc = "closing"
    /\ \A s \in Servers : scan.child[s] \notin {"init", "running"}
    /\ scan' = [scan EXCEPT !.pc = IF scan.exc = "none" THEN "returned" ELSE "raised"]
    /\ last' = [op |-> "scan_now", arg |-> 0,
                res |-> IF scan.exc = "none" THEN "ok" ELSE scan.exc]
    /\ UNCHANGED <<busvars, devvars, srvvars, taskvars, aexit, structvars>>

\* ----------------------------------------------------------- ensure_struct
NoCall == [pc |-> "none", called |-> FALSE, flag |-> FALSE, server |-> 0]

\* cls.setup_struct(server) ends: it sets cls._did_setup when it succeeds.
\* The class lives in trio_owfs/device.py.
setup_struct(ok) == _did_setup \/ ok

\* Service.ensure_struct(dev, server, maybe) up to await cls.setup_struct(...);
\* server 0 stands for None, flag records cls._did_setup as the call found it
ensure_struct(c, server, maybe) ==
    LET found == [NoCall EXCEPT !.flag = _did_setup] IN
    /\ es[c].pc = "none"
    /\ \A b \in Callers : b < c => es[b].pc # "none"
    /\ IF maybe /\ ~_load_structs
       THEN es' = [es EXCEPT ![c] = [found EXCEPT !.pc = "returned"]]
       ELSE IF _did_setup
       THEN es' = [es EXCEPT ![c] = [found EXCEPT !.pc = "returned"]]
       ELSE IF server # 0
       THEN es' = [es EXCEPT ![c] = [found EXCEPT !.pc = "setup", !.called = TRUE,
                                                  !.server = server]]
       ELSE IF _servers # {}
       THEN \E s \in _servers :
               es' = [es EXCEPT ![c] = [found EXCEPT !.pc = "setup",
                                                     !.called = TRUE, !.server = s]]
       ELSE es' = [es EXCEPT ![c] = [found EXCEPT !.pc = "returned"]]
    /\ last' = [op |-> "ensure_struct", arg |-> c,
                res |-> IF es'[c].pc = "setup" THEN "suspended" ELSE "ok"]
    /\ UNCHANGED <<_did_setup, _load_structs, busvars, devvars, srvvars, taskvars,
                   aexit, scan>>

\* Service.ensure_struct, lines 88 and 91-92: setup_struct returned or raised
setup_struct_done(c, ok) ==
    /\ es[c].pc = "setup"
    /\ _did_setup' = setup_struct(ok)
    /\ es' = [es EXCEPT ![c].pc = IF ok THEN "returned" ELSE "raised"]
    /\ last' = [op |-> "ensure_struct", arg |-> c,
                res |-> IF ok THEN "ok" ELSE "SetupError"]
    /\ UNCHANGED <<_load_structs, busvars, devvars, srvvars, taskvars, aexit, scan>>

\* --------------------------------------------------------- specification
Init ==
    /\ _devices = {}
    /\ _event_queue = None
    /\ entered = [w \in Wrappers |-> FALSE]
    /\ it = [w \in Wrappers |-> Idle]
    /\ npush = 0
    /\ lost = {}
    /\ accepted = <<>>
    /\ armed_at = 0
    /\ getters = {}
    /\ got = [w \in Wrappers |-> <<>>]
    /\ added = [k \in Ids |-> 0]
    /\ calls = [k \in Ids |-> 0]
    /\ returned = [k \in Ids |-> {}]
    /\ _servers = {}
    /\ srv = [s \in Servers |-> [pc |-> "new", start |-> "none", exc |-> "none"]]
    /\ srv_log = [s \in Servers |-> <<>>]
    /\ deleted = [s \in Servers |-> FALSE]
    /\ _tasks = {}
    /\ task = [t \in Tasks |-> NoTask]
    /\ nursery_cancelled = FALSE
    /\ observe \in BOOLEAN
    /\ closed = {}
    /\ aexit = NoExit
    /\ scan = NoScan
    /\ _did_setup = FALSE
    /\ _load_structs \in BOOLEAN
    /\ es = [c \in Callers |-> NoCall]
    /\ last = [op |-> "__init__", arg |-> 0, res |-> "ok"]

\* the consumer side of the bus, for the wrappers in W
Consumer(W) ==
    \/ \E w \in W : __enter__(w)
    \/ \E w \in W, clean \in BOOLEAN : __exit__(w, clean)
    \/ \E w \in W : __anext__(w)
    \/ \E w \in W : anext_resume(w)

NextBus ==
    \/ Consumer(Wrappers)
    \/ \E e \in ExternalEvents : PushEvent(e)

NextDev ==
    \/ \E id \in Ids : get_device(id)
    \/ \E p \in _devices : _del_device(p[2])
    \/ \E e \in ExternalEvents : PushEvent(e)
    \/ Consumer({1})

NextSrv ==
    \/ \E s \in Servers : add_server(s)
    \/ \E s \in Servers : start_ok(s)
    \/ \E s \in Servers : start_failed(s)
    \/ \E s \in Servers, ok \in BOOLEAN : start_scan_done(s, ok)
    \/ \E s \in Servers : _del_server(s)
    \/ Consumer({1})

NextTask ==
    \/ \E t \in Tasks : add_task(t)
    \/ \E t \in Tasks : add_task_resume(t)
    \/ \E t \in Tasks : add_task_cancelled(t)
    \/ \E t \in Tasks, how \in {"returned", "failed", "cancelled"} : _add_task(t, how)
    \/ \E t \in Tasks : cancel(t)

\* the service scope is left while servers and tasks are in use, bus unarmed
NextExit ==
    \/ \E clean \in BOOLEAN : __aexit__(clean)
    \/ aexit_dropped
    \/ aexit_cancelled
    \/ \E s \in Servers : add_server(s)
    \/ \E s \in Servers : start_ok(s)
    \/ \E s \in Servers : _del_server(s)
    \/ \E t \in Tasks : add_task(t)
    \/ \E t \in Tasks : add_task_resume(t)
    \/ \E t \in Tasks, how \in {"returned", "failed", "cancelled"} : _add_task(t, how)

\* the service scope is left while one server, one task and the bus are in use
NextDrain ==
    \/ \E clean \in BOOLEAN : __aexit__(clean)
    \/ aexit_dropped
    \/ aexit_drained
    \/ aexit_cancelled
    \/ add_server(1)
    \/ start_ok(1)
    \/ add_task(1)
    \/ add_task_resume(1)
    \/ \E how \in {"returned", "failed", "cancelled"} : _add_task(1, how)
    \/ Consumer({1})

\* the life of the servers up to the shutdown of the service; the bus can be
\* armed and is never read, so that it fills up
NextLife ==
    \/ \E s \in Servers : add_server(s)
    \/ \E s \in Servers : start_ok(s)
    \/ \E s \in Servers : start_failed(s)
    \/ \E s \in Servers, ok \in BOOLEAN : start_scan_done(s, ok)
    \/ \E s \in Servers : _del_server(s)
    \/ \E clean \in BOOLEAN : __aexit__(clean)
    \/ aexit_dropped
    \/ aexit_drained
    \/ __enter__(1)

NextScan ==
    \/ \E s \in Servers : add_server(s)
    \/ \E s \in Servers : start_ok(s)
    \/ scan_now
    \/ \E s \in Servers : scan_child_started(s)
    \/ scan_resume
    \/ \E s \in Servers : scan_child_raised(s)
    \/ \E s \in Servers, how \in {"done", "failed", "cancelled"} :
            scan_child_ended(s, how)
    \/ scan_start_cancelled
    \/ scan_closed

NextStruct ==
    \/ \E s \in Servers : add_server(s)
    \/ \E s \in Servers : start_ok(s)
    \/ \E c \in Callers, server \in {0} \cup Servers, maybe \in BOOLEAN :
            ensure_struct(c, server, maybe)
    \/ \E c \in Callers, ok \in BOOLEAN : setup_struct_done(c, ok)

Next == NextBus \/ NextDev \/ NextSrv \/ NextTask \/ NextExit \/ NextDrain
           \/ NextLife \/ NextScan \/ NextStruct

\* the history of the events is kept / the history of the wrappers is kept
InitObserved == Init /\ observe = TRUE /\ _load_structs = TRUE
InitPlain == Init /\ observe = FALSE /\ _load_structs = TRUE

\* every operation interleaved
Spec == Init /\ [][Next]_vars
\* the event bus, its consumers and its producers
SpecBus == InitObserved /\ [][NextBus]_vars
\* the event bus with the history of the wrappers
SpecIter == InitPlain /\ [][NextBus]_vars
\* the device map over the bus
SpecDev == InitPlain /\ [][NextDev]_vars
\* the server set over the bus
SpecSrv == InitPlain /\ [][NextSrv]_vars
\* the task set
SpecTask == InitPlain /\ [][NextTask]_vars
\* the shutdown of the service
SpecExit == InitPlain /\ [][NextExit]_vars
\* the shutdown of the service with an armed bus
SpecDrain == InitPlain /\ [][NextDrain]_vars
\* the same, with every started server drop completing, the shutdown and the
\* supervised task being scheduled; nothing is assumed of the bus consumer
SpecDrainFair ==
    /\ SpecDrain
    /\ WF_vars(aexit_dropped)
    /\ WF_vars(aexit_drained)
    /\ WF_vars(\E how \in {"returned", "failed", "cancelled"} : _add_task(1, how))
\* the servers from add_server to the shutdown of the service
SpecLife == InitPlain /\ [][NextLife]_vars
\* scan_now over the server set
SpecScan == InitPlain /\ [][NextScan]_vars
\* ensure_struct with either setting of load_structs
InitStruct == Init /\ observe = FALSE
SpecStruct == InitStruct /\ [][NextStruct]_vars

\* ---------------------------------------------------------------- claims
Stamps(seq) == {seq[i].n : i \in 1 .. Len(seq)}

\* the events a consumer can see: queued, handed to a getter, or returned
Visible ==
    (IF _event_queue = None THEN {} ELSE Stamps(_event_queue.data))
    \cup UNION {Stamps(got[w]) : w \in Wrappers}
    \cup {it[w].val.n : w \in {v \in Wrappers : it[v].pc = "woken" /\ it[v].val # None}}

\* the events of seq pushed since the bus was armed
InSession(seq) == SelectSeq(seq, LAMBDA e : e.n > armed_at)

\* the event Queue.get() has taken for w and __anext__ has not returned yet
Pending(w) ==
    IF it[w].pc = "woken" /\ it[w].val # None
    THEN InSession(<<it[w].val>>) ELSE <<>>

\* C1: for every ID k the device map holds at most one entry, every
\* get_device(k) call that returned has returned the one instance in the map,
\* and DeviceAdded(k) was pushed exactly once as soon as get_device(k) was
\* called, however many calls followed.
C1_OneDevicePerId ==
    \A k \in Ids :
        /\ Cardinality({p \in _devices : p[1] = k}) <= 1
        /\ Cardinality(returned[k]) <= 1
        /\ \A p \in _devices : p[1] = k => returned[k] \subseteq {p[2].obj}
        /\ added[k] = IF calls[k] > 0 THEN 1 ELSE 0

\* get_device was called twice for one ID and returned its device
C1_Witness ==
    \E k \in Ids : calls[k] = 2 /\ returned[k] # {} /\ last.op = "get_device"

\* the emits the add_server call for s made itself
OwnEmits(s) == SelectSeq(srv_log[s], LAMBDA e : e.by = "add_server")

Kinds(seq) == [i \in 1 .. Len(seq) |-> seq[i].kind]

\* C2: an add_server call emits exactly one ServerRegistered before start is
\* attempted; after a successful start it has emitted no ServerDeregistered;
\* after a failed start it has emitted exactly one ServerDeregistered after
\* the ServerRegistered and the start error is what the caller gets.
C2_AddServerEvents ==
    \A s \in Servers :
        /\ srv[s].pc # "new" =>
              /\ OwnEmits(s) # <<>>
              /\ OwnEmits(s)[1].kind = "ServerRegistered"
        /\ srv[s].start \in {"none", "ok"} /\ srv[s].pc # "new" =>
              Kinds(OwnEmits(s)) = <<"ServerRegistered">>
        /\ srv[s].start = "failed" =>
              /\ Kinds(OwnEmits(s)) = <<"ServerRegistered", "ServerDeregistered">>
              /\ srv[s].exc = "StartError"

\* C3: the server set holds only servers whose start succeeded and that
\* _del_server has not removed since; a server that is starting or whose
\* start failed is not in it.
C3_OnlyStartedServers ==
    \A s \in Servers :
        /\ s \in _servers => srv[s].start = "ok" /\ ~deleted[s]
        /\ srv[s].start # "ok" => s \notin _servers

\* server 1 started, server 2 failed to start, and only server 1 is live
C3_Witness ==
    /\ srv[1].start = "ok"
    /\ srv[2].start = "failed"
    /\ _servers = {1}

\* C4: push_event and get_device never raise and never suspend.
C4_NeverRaise ==
    last.op \in {"push_event", "get_device"} => last.res = "ok"

\* C5: an event pushed while the bus is unarmed changes no state and is never
\* seen by a consumer: it is in no queue, is handed to no getter and is
\* returned by no __anext__, and arming starts with an empty queue.
C5_LostWhenUnarmed ==
    /\ [](lost \cap Visible = {})
    /\ [][/\ (_event_queue = None /\ last'.op = "push_event") =>
               UNCHANGED <<_event_queue, entered, it, _devices, _servers, _tasks>>
          /\ (_event_queue = None /\ _event_queue' # None) =>
               (_event_queue'.data = <<>> /\ _event_queue'.get_wait = <<>>)]_vars

\* an event was discarded, the bus was armed later and its consumer got events
C5_Witness ==
    /\ _event_queue # None
    /\ \E n \in lost : n <= armed_at
    /\ \E w \in Wrappers : got[w] # <<>>

\* C6: at most one with-block on the events guard is active; __enter__ on an
\* armed bus raises AssertionError and leaves the queue, the pending events
\* and the waiting consumers as they were.
C6_SingleConsumer ==
    /\ [](Cardinality({w \in Wrappers : entered[w]}) <= 1)
    /\ []((\E w \in Wrappers : entered[w]) => _event_queue # None)
    /\ [][(_event_queue # None /\ last'.op = "__enter__") =>
             /\ last'.res = "AssertionError"
             /\ UNCHANGED <<_event_queue, entered, it>>]_vars

\* a second __enter__ failed while the armed consumer had events pending
C6_Witness ==
    /\ last.op = "__enter__"
    /\ last.res = "AssertionError"
    /\ \E w \in Wrappers : entered[w] /\ w # last.arg
    /\ _event_queue.data # <<>>

\* C7: a clean __exit__ with events pending fails; an __exit__ on an error
\* completes the release (the bus is unarmed afterwards) whatever is pending.
C7_ReleaseChecks ==
    [][(\E w \in Wrappers : entered[w] /\ ~entered'[w]) =>
          /\ (last'.clean /\ _event_queue.data # <<>>) => last'.res # "ok"
          /\ ~last'.clean => (last'.res = "ok" /\ _event_queue' = None)]_vars

\* C8: while the bus is armed and one consumer iterates, what it got, then
\* what get() holds for it, then what is queued, is exactly the sequence of
\* events put_nowait accepted since arming, in that order.
C8_Fifo ==
    \A w \in Wrappers :
        (_event_queue # None /\ getters \subseteq {w}) =>
            InSession(got[w]) \o Pending(w) \o _event_queue.data = accepted

\* one consumer got two events in a session and another event is queued
C8_Witness ==
    /\ _event_queue # None
    /\ _event_queue.data # <<>>
    /\ \E w \in Wrappers : getters = {w} /\ Len(InSession(got[w])) >= 2

\* C9: the task set holds only handles of activities that are still running.
C9_OnlyRunning ==
    \A t \in _tasks : task[t].child = "running"

\* C10: once a cancelled activity has ended its handle is not in the task set,
\* and cancelling a handle changes no other task and no other handle.
C10_CancelRemoves ==
    /\ [](\A t \in Tasks :
            (task[t].cancel_called /\ task[t].child # "running") => t \notin _tasks)
    /\ [][\A t \in Tasks :
            (~task[t].cancel_called /\ task'[t].cancel_called) =>
                /\ \A u \in Tasks \ {t} : task'[u] = task[u]
                /\ _tasks' = _tasks]_vars

\* the servers of __aexit__'s list (of the server set, before __aexit__ is
\* called) whose drop has not completed
Undropped ==
    IF aexit.pc = "none" THEN _servers
    ELSE aexit.todo \cup (IF aexit.pc = "dropping" THEN {aexit.cur} ELSE {})

\* C11: a supervised task observes its cancellation (its activity ends
\* cancelled) only when the drop of every live server has completed, on a
\* clean exit and on an exit caused by a failed supervised task.
C11_DropBeforeCancel ==
    [][\A t \in Tasks :
          (task[t].child = "running" /\ task'[t].child = "cancelled") =>
              Undropped = {}]_vars

\* __aexit__ has ended and every added task that still runs is cancelled
ShutdownDone ==
    /\ aexit.pc \in {"returned", "raised"}
    /\ \A t \in Tasks :
          (task[t].caller # "none" /\ task[t].child = "running") =>
              (task[t].cancel_called \/ nursery_cancelled)

\* C12: once the service scope is exited, __aexit__ eventually ends and every
\* added task that still runs has been cancelled, whatever the bus holds and
\* whatever its consumer does.
C12_ShutdownCompletes == (aexit.pc # "none") ~> ShutdownDone

\* C13: on an exit with an error in flight __aexit__ never waits in the drain
\* loop; it waits there only on an exit without error.
C13_NoDrainOnError == aexit.pc = "drain" => aexit.clean

\* C14: when the bus is disarmed, the consumer suspended in __anext__ is woken
\* with the sentinel and its iteration ends; a consumer that calls __anext__
\* after the disarm sees its iteration end too (StopAsyncIteration); the
\* sentinel is never returned as an event.
C14_SentinelEndsIteration ==
    [][/\ (_event_queue # None /\ _event_queue' = None
              /\ _event_queue.get_wait # <<>>) =>
            it'[Head(_event_queue.get_wait)] = [pc |-> "woken", val |-> None]
       /\ \A w \in Wrappers :
            (it[w].pc = "woken" /\ it[w].val = None /\ it'[w].pc = "idle") =>
             last'.res = "StopAsyncIteration"
       /\ (closed # {} /\ _event_queue = None /\ last'.op = "__anext__"
              /\ it[last'.arg].pc = "idle") =>
            last'.res = "StopAsyncIteration"]_vars

\* C15: after the bus was disarmed and armed again, a wrapper whose with-block
\* had ended gets no event of the new session: get() hands it none; the events
\* go to the new acquisition only.
C15_NotRestartable ==
    [][\A w \in closed :
          (\E v \in Wrappers \ {w} : entered[v]) =>
              ~(it[w].pc # "woken" /\ it'[w].pc = "woken" /\ it'[w].val # None)]_vars

\* C16: when scan_now has ended, a scan was started for every server that was
\* registered when it was called, also when one of the scans failed; and it
\* raises only when every started scan has ended.
C16_ScanAll ==
    /\ scan.pc \in {"returned", "raised"} =>
          \A s \in scan.servers : scan.child[s] # "none"
    /\ scan.pc = "raised" =>
          \A s \in Servers : scan.child[s] \notin {"init", "running"}

\* C17: after _del_device(d) the device map has no entry for d's ID (so that a
\* later get_device makes a new instance), and the call has gone through to
\* its push_event.
C17_DelDeviceRemoves ==
    last.op = "_del_device" =>
        (last.res = "ok" /\ ~has_key(_devices, last.arg))

\* C18: the push_event calls about a server are ServerRegistered followed by
\* at most one ServerDeregistered; ServerDeregistered has been pushed once
\* the start has failed and once a live server has left the server set, and
\* only then.
C18_ServerHistory ==
    \A s \in Servers :
        LET k == Kinds(srv_log[s])
            gone == srv[s].start = "failed"
                    \/ (srv[s].start = "ok" /\ s \notin _servers) IN
        /\ srv[s].pc = "new" => k = <<>>
        /\ (srv[s].pc # "new" /\ ~gone) => k = <<"ServerRegistered">>
        /\ gone => k = <<"ServerRegistered", "ServerDeregistered">>

\* the shutdown dropped a live server, _del_server removed it, and a second
\* _del_server for it raised
C18_Witness ==
    /\ aexit.pc = "returned"
    /\ last.op = "_del_server"
    /\ last.res = "KeyError"
    /\ last.arg \in aexit.dropped
    /\ deleted[last.arg]

\* C19: of the ensure_struct calls on devices of one class at most one has
\* invoked setup_struct without that invocation having failed, however the
\* calls interleave; and a call that finds the class flag set invokes nothing.
C19_SetupOnce ==
    /\ Cardinality({c \in Callers : es[c].called /\ es[c].pc # "raised"}) <= 1
    /\ \A c \in Callers : es[c].flag => ~es[c].called

\* C20: whenever __exit__ ends, by returning or by raising (a failed check of
\* the queue on a clean exit, a full queue), the bus is unarmed.  The outcome
\* of a missing is_empty attribute is left aside.
C20_ReleaseUnarms ==
    [][(/\ \E w \in Wrappers : entered[w] /\ ~entered'[w]
        /\ last'.res # "AttributeError") =>
          _event_queue' = None]_vars

====
